---- MODULE Spec2Model ----
(***************************************************************************)
(* Model of linkcheck: the dependency walker, the search locations, the    *)
(* reader of ld.so.conf (src/src/libraries.rs), the symbol summary         *)
(* (src/src/symbols.rs) and the reports of the driver (src/src/main.rs).   *)
(*                                                                         *)
(* A path is a record [dir, name]: dir is the parent directory, name the   *)
(* final component.  dir.join("") names the directory itself and is the    *)
(* record with name = "".  Strings of the dynamic string table are drawn   *)
(* without ':' so that split(":") yields the string itself as its only     *)
(* segment; a segment is either a literal directory or "$ORIGIN".          *)
(*                                                                         *)
(* The recursion of collect_libs is an explicit stack of frames; the top   *)
(* frame is the running call.                                              *)
(***************************************************************************)
EXTENDS Naturals, Sequences, FiniteSets

VARIABLES
    disk,                   \* filesystem: existing regular files -> contents
    search_methods,         \* the caller's &[LibSearchMethod]
    ld_library_path,        \* environment: LD_LIBRARY_PATH segments, or Unset
    opened_libs,            \* LibraryDependencies.opened_libs (keys)
    resolved,               \* LibraryDependencies.resolved
    reverse_dependencies,   \* LibraryDependencies.reverse_dependencies
    problems,               \* LibraryDependencies.problems
    stack,                  \* call stack of collect_libs, top is last
    status,                 \* "running" | "ok" | "err" | "panic"
    failure,                \* which failure ended the run ("none" while there is none)
    visit_order,            \* history: the inserts into opened_libs, in order, each with
                            \*   the lib_path of the calling frame (None for the entry)
    processed,              \* history: NEEDED edges in the order the closure handled them
    lookup,                 \* one library lookup: locations built, name searched
    summary,                \* the symbol summary and the reports of the driver
    conf                    \* the reading of a loader configuration file

vars == << disk, search_methods, ld_library_path, opened_libs, resolved,
           reverse_dependencies, problems, stack, status, failure,
           visit_order, processed, lookup, summary, conf >>

----------------------------------------------------------------------------
(* Bounds and universe of the inputs *)

MaxEdges == 3

LIBS_D_TAG == 1

RPATH_D_TAG == 15

RUNPATH_D_TAG == 29

DirA == "/a/lib"

DirB == "/b/lib"

Directories == {DirA, DirB}

Path(d, n) == [dir |-> d, name |-> n]

None == Path("-", "-")

elf_path == Path(DirA, "app")

FooPath == Path(DirA, "libfoo.so")

ZPathA == Path(DirA, "libz.so")

ZPathB == Path(DirB, "libz.so")

\* a second file with the base-name of the entry
TwinPath == Path(DirB, "app")

ExtraFiles == { {}, {ZPathA}, {ZPathB}, {ZPathA, ZPathB}, {TwinPath} }

NeededNames == {"app", "libfoo.so", "libz.so", ""}

SeqsUpTo(S, k) == UNION { [1..m -> S] : m \in 0..k }

Unset == << "unset" >>

RPath == [kind |-> "RPath", path |-> "-"]

Fixed(p) == [kind |-> "Fixed", path |-> p]

RunPath == [kind |-> "RunPath", path |-> "-"]

LDLibraryPath == [kind |-> "LDLibraryPath", path |-> "-"]

LDConfig(p) == [kind |-> "LDConfig", path |-> p]

----------------------------------------------------------------------------
(* Pure functions of the source *)

Dyn(tag, val) == [d_tag |-> tag, d_val |-> val]

\* str::split(":") on a string without ':' : the string is the only segment
Split(s) == << s >>

RECURSIVE FromElfLoop(_, _, _)
FromElfLoop(dyns, k, dyninfo) ==
    IF k > Len(dyns) THEN dyninfo
    ELSE LET d == dyns[k] IN
         FromElfLoop(dyns, k + 1,
            IF d.d_tag = RPATH_D_TAG
              THEN [dyninfo EXCEPT !.rpath = @ \o Split(d.d_val)]
            ELSE IF d.d_tag = RUNPATH_D_TAG
              THEN [dyninfo EXCEPT !.runpath = @ \o Split(d.d_val)]
            ELSE IF d.d_tag = LIBS_D_TAG
              THEN [dyninfo EXCEPT !.libs = Append(@, d.d_val)]
            ELSE dyninfo)

DynInfoNew == [rpath |-> << >>, runpath |-> << >>, libs |-> << >>]

\* DynInfo::from_elf: None when the ELF has no dynamic section
FromElf(elf) ==
    IF elf.has_dynamic THEN FromElfLoop(elf.dyns, 1, DynInfoNew) ELSE None

\* Path::exists: a regular file on disk, or dir.join("") of an existing directory
Exists(p) == p \in DOMAIN disk \/ (p.name = "" /\ p.dir \in Directories)

\* PathBuf::join with a relative lib_name
Join(dir, lib_name) == Path(dir, lib_name)

RECURSIVE TryFindFrom(_, _, _)
TryFindFrom(locs, k, lib_name) ==
    IF k > Len(locs) THEN None
    ELSE IF Exists(Join(locs[k][1], lib_name)) THEN Join(locs[k][1], lib_name)
    ELSE TryFindFrom(locs, k + 1, lib_name)

TryFindLibrary(locs, lib_name) == TryFindFrom(locs, 1, lib_name)

\* variant: the file is read but the parse of line 142 is not made
CanOpenUnparsed(p) == p \in DOMAIN disk

\* Library::try_from_path succeeds iff the file can be read and parses as ELF
CanOpen(p) == p \in DOMAIN disk /\ disk[p].elf

\* Library::get_name
GetName(p) == p.name

\* str::replace("$ORIGIN", origin) on a segment that is "$ORIGIN" or a literal
ReplaceOrigin(seg, origin) == IF seg = "$ORIGIN" THEN origin ELSE seg

MapSegs(segs, origin, tag) ==
    [k \in 1..Len(segs) |-> << ReplaceOrigin(segs[k], origin), tag >>]

\* variant: the rule of the system loader, DT_RPATH is ignored when DT_RUNPATH is present
MethodLocationsRunPathWins(method, dyninfo, origin) ==
    IF method.kind = "RPath"
      THEN IF dyninfo.runpath # << >> THEN << >>
           ELSE MapSegs(dyninfo.rpath, origin, "rpath")
    ELSE IF method.kind = "RunPath" THEN MapSegs(dyninfo.runpath, origin, "runpath")
    ELSE IF method.kind = "LDLibraryPath"
      THEN IF ld_library_path = Unset THEN << >>
           ELSE [k \in 1..Len(ld_library_path) |-> << ld_library_path[k], "LD_LIBRARY_PATH" >>]
    ELSE IF method.kind = "Fixed" THEN << << method.path, "fixed" >> >>
    ELSE << >>

MethodLocations(method, dyninfo, origin) ==
    IF method.kind = "RPath" THEN MapSegs(dyninfo.rpath, origin, "rpath")
    ELSE IF method.kind = "RunPath" THEN MapSegs(dyninfo.runpath, origin, "runpath")
    ELSE IF method.kind = "LDLibraryPath"
      THEN IF ld_library_path = Unset THEN << >>
           ELSE [k \in 1..Len(ld_library_path) |-> << ld_library_path[k], "LD_LIBRARY_PATH" >>]
    ELSE IF method.kind = "Fixed" THEN << << method.path, "fixed" >> >>
    ELSE << >>   \* LDConfig: read line by line, see ConfOpen and the actions after it

RECURSIVE BuildLocationsFrom(_, _, _, _)
BuildLocationsFrom(methods, k, dyninfo, origin) ==
    IF k > Len(methods) THEN << >>
    ELSE MethodLocations(methods[k], dyninfo, origin)
         \o BuildLocationsFrom(methods, k + 1, dyninfo, origin)

BuildLocations(dyninfo, lib_path) ==
    BuildLocationsFrom(search_methods, 1, dyninfo, lib_path.dir)

----------------------------------------------------------------------------
(* Initial states *)

ElfFile(has_dyn, rpath, libs) ==
    [elf |-> TRUE, has_dynamic |-> has_dyn,
     dyns |-> << Dyn(RPATH_D_TAG, rpath) >>
              \o [k \in 1..Len(libs) |-> Dyn(LIBS_D_TAG, libs[k])]]

NotElfFile == [elf |-> FALSE, has_dynamic |-> FALSE, dyns |-> << >>]

Frame(path, caller) ==
    [lib_path |-> path, reverse_dependency |-> caller, pc |-> "enter",
     lib_locations |-> << >>, libs |-> << >>, i |-> 1,
     new_lib_paths |-> << >>, j |-> 1]

\* the value of a part of the state that a specification does not run
Idle == [pc |-> "idle"]

\* the entry is a file that cannot be read, or one that is not an ELF file
BrokenEntryDisks == { [p \in {} |-> NotElfFile], [p \in {elf_path} |-> NotElfFile] }

Init ==
    /\ \/ \E la \in SeqsUpTo(NeededNames, MaxEdges) :
          \E lf \in SeqsUpTo(NeededNames, MaxEdges - Len(la)) :
          \E lz \in SeqsUpTo(NeededNames, MaxEdges - Len(la) - Len(lf)) :
          \E ra \in Directories, rf \in Directories :
          \E zfiles \in ExtraFiles :
          \E defect \in {"none", "nodyn", "notelf"} :
             disk = [p \in {elf_path, FooPath} \cup zfiles |->
                       IF p = elf_path THEN ElfFile(TRUE, ra, la)
                       ELSE IF p = FooPath
                         THEN ElfFile(defect # "nodyn", rf, lf)
                       ELSE IF defect = "notelf" THEN NotElfFile
                       ELSE ElfFile(TRUE, "$ORIGIN", lz)]
       \/ disk \in BrokenEntryDisks
    /\ search_methods \in { << RPath >>, << RPath, Fixed(DirB) >> }
    /\ ld_library_path = Unset
    /\ lookup = Idle
    /\ summary = Idle
    /\ conf = Idle
    /\ opened_libs = {}
    /\ resolved = << >>
    /\ reverse_dependencies = << >>
    /\ problems = << >>
    /\ stack = << Frame(elf_path, None) >>
    /\ status = "running"
    /\ failure = "none"
    /\ visit_order = << >>
    /\ processed = << >>

----------------------------------------------------------------------------
(* collect_libs, one frame per call *)

top == stack[Len(stack)]

Running == status = "running" /\ stack # << >>

SetTop(f) == [stack EXCEPT ![Len(stack)] = f]

Pop == SubSeq(stack, 1, Len(stack) - 1)

MapPut(m, k, v) == [x \in DOMAIN m \cup {k} |-> IF x = k THEN v ELSE m[x]]

\* variant: the insert of lines 337-339 made without the test of line 336
NoteResolvedOverwrite(res, lib_name, lib_path) == MapPut(res, lib_name, lib_path)

\* lines 336-340: insert only when the name has not been resolved before
NoteResolved(res, lib_name, lib_path) ==
    IF lib_name \in DOMAIN res THEN res ELSE MapPut(res, lib_name, lib_path)

\* variant: an entry is made for every visit, an empty one when there is no caller
NoteReverseDependencyAlways(rev, lib_path, caller) ==
    MapPut(rev, lib_path, IF caller # None THEN << caller >> ELSE << >>)

\* lines 344-349: a fresh entry [reverse_dependency] when there is a caller
NoteReverseDependency(rev, lib_path, caller) ==
    IF caller # None THEN MapPut(rev, lib_path, << caller >>) ELSE rev

\* variant: the new dependent is put in front of the list
PushReverseDependencyFront(list, lib_path) == << lib_path >> \o list

\* line 440: reverse_dependencies.push(lib_path)
PushReverseDependency(list, lib_path) == Append(list, lib_path)

\* the frame that made the running call, None for the call of try_find_for_elf
CallingLib == IF Len(stack) > 1 THEN stack[Len(stack) - 1].lib_path ELSE None

Visit == [lib_path |-> top.lib_path, under |-> CallingLib]

Finish(st, why) ==
    /\ status' = st
    /\ failure' = why
    /\ stack' = << >>

\* what collect_libs only reads, and the state of the other parts of the program
Inputs == << disk, search_methods, ld_library_path, lookup, summary, conf >>

\* lines 315-318: the library is already analyzed, return Ok(())
AlreadyOpened ==
    /\ Running
    /\ top.pc = "enter"
    /\ top.lib_path \in opened_libs
    /\ stack' = Pop
    /\ status' = IF Len(stack) = 1 THEN "ok" ELSE status
    /\ UNCHANGED << Inputs, opened_libs, resolved, reverse_dependencies,
                    problems, failure, visit_order, processed >>

\* lines 320-323: Library::try_from_path fails, `?` unwinds every caller
OpenFails ==
    /\ Running
    /\ top.pc = "enter"
    /\ top.lib_path \notin opened_libs
    /\ ~CanOpen(top.lib_path)
    /\ Finish("err", "open")
    /\ UNCHANGED << Inputs, opened_libs, resolved, reverse_dependencies,
                    problems, visit_order, processed >>

\* lines 320-355: opened and registered, then expect("file has no dyninfo") panics
NoDynInfo ==
    /\ Running
    /\ top.pc = "enter"
    /\ top.lib_path \notin opened_libs
    /\ CanOpen(top.lib_path)
    /\ FromElf(disk[top.lib_path]) = None
    /\ opened_libs' = opened_libs \cup {top.lib_path}
    /\ visit_order' = Append(visit_order, Visit)
    /\ resolved' = NoteResolved(resolved, GetName(top.lib_path), top.lib_path)
    /\ reverse_dependencies' =
          NoteReverseDependency(reverse_dependencies, top.lib_path, top.reverse_dependency)
    /\ Finish("panic", "no dyninfo")
    /\ UNCHANGED << Inputs, problems, processed >>

\* lines 320-404: open, register, read the dynamic info, build the locations
Open ==
    /\ Running
    /\ top.pc = "enter"
    /\ top.lib_path \notin opened_libs
    /\ CanOpen(top.lib_path)
    /\ FromElf(disk[top.lib_path]) # None
    /\ LET dyninfo == FromElf(disk[top.lib_path]) IN
         stack' = SetTop([top EXCEPT
                    !.pc = IF dyninfo.libs = << >> THEN "calls" ELSE "libs",
                    !.lib_locations = BuildLocations(dyninfo, top.lib_path),
                    !.libs = dyninfo.libs])
    /\ opened_libs' = opened_libs \cup {top.lib_path}
    /\ visit_order' = Append(visit_order, Visit)
    /\ resolved' = NoteResolved(resolved, GetName(top.lib_path), top.lib_path)
    /\ reverse_dependencies' =
          NoteReverseDependency(reverse_dependencies, top.lib_path, top.reverse_dependency)
    /\ UNCHANGED << Inputs, problems, status, failure, processed >>

(* The closure of lines 414-464 applied to libs[i] *)

dependency_lib_name == top.libs[top.i]

dependency_lib_path == TryFindLibrary(top.lib_locations, dependency_lib_name)

AtEdge == Running /\ top.pc = "libs"

Problem(kind, resolve_path, prev, first) ==
    [kind |-> kind, dependent_lib |-> top.lib_path, lib_name |-> dependency_lib_name,
     resolve_path |-> resolve_path, locations |-> top.lib_locations,
     prev_resolved_path |-> prev, first_resolver |-> first]

\* variant: a path to recurse into is put in front of new_lib_paths
NextEdgeFront(enqueue) ==
    /\ stack' = SetTop([top EXCEPT
                  !.i = @ + 1,
                  !.pc = IF top.i = Len(top.libs) THEN "calls" ELSE "libs",
                  !.new_lib_paths = enqueue \o @])
    /\ processed' = Append(processed,
                      [dependent_lib |-> top.lib_path, lib_name |-> dependency_lib_name,
                       dependency_lib_path |-> dependency_lib_path])

\* lines 467 and 411-413: the closure's result is appended to new_lib_paths, the
\* iteration moves to the next NEEDED entry
NextEdge(enqueue) ==
    /\ stack' = SetTop([top EXCEPT
                  !.i = @ + 1,
                  !.pc = IF top.i = Len(top.libs) THEN "calls" ELSE "libs",
                  !.new_lib_paths = @ \o enqueue])
    /\ processed' = Append(processed,
                      [dependent_lib |-> top.lib_path, lib_name |-> dependency_lib_name,
                       dependency_lib_path |-> dependency_lib_path])

\* line 428: get_mut(resolved_lib_path).unwrap() on a path without an entry
EdgeUnwrapPanic ==
    /\ AtEdge
    /\ dependency_lib_name \in DOMAIN resolved
    /\ resolved[dependency_lib_name] \notin DOMAIN reverse_dependencies
    /\ Finish("panic", "unwrap")
    /\ UNCHANGED << Inputs, opened_libs, resolved, reverse_dependencies,
                    problems, visit_order, processed >>

\* lines 429-438
EdgeConflict ==
    /\ AtEdge
    /\ dependency_lib_name \in DOMAIN resolved
    /\ resolved[dependency_lib_name] \in DOMAIN reverse_dependencies
    /\ dependency_lib_path # None
    /\ dependency_lib_path # resolved[dependency_lib_name]
    /\ problems' = Append(problems,
          Problem("ResolveConflict", dependency_lib_path, resolved[dependency_lib_name],
                  Head(reverse_dependencies[resolved[dependency_lib_name]])))
    /\ NextEdge(<< >>)
    /\ UNCHANGED << Inputs, opened_libs, resolved, reverse_dependencies,
                    status, failure, visit_order >>

\* lines 439-441
EdgeSamePath ==
    /\ AtEdge
    /\ dependency_lib_name \in DOMAIN resolved
    /\ resolved[dependency_lib_name] \in DOMAIN reverse_dependencies
    /\ dependency_lib_path # None
    /\ dependency_lib_path = resolved[dependency_lib_name]
    /\ reverse_dependencies' =
          [reverse_dependencies EXCEPT ![resolved[dependency_lib_name]] =
              PushReverseDependency(@, top.lib_path)]
    /\ NextEdge(<< >>)
    /\ UNCHANGED << Inputs, opened_libs, resolved, problems,
                    status, failure, visit_order >>

\* lines 442-450
EdgeUnresolvedButPreviouslyResolved ==
    /\ AtEdge
    /\ dependency_lib_name \in DOMAIN resolved
    /\ resolved[dependency_lib_name] \in DOMAIN reverse_dependencies
    /\ dependency_lib_path = None
    /\ problems' = Append(problems,
          Problem("UnresolvedButPreviouslyResolved", None, resolved[dependency_lib_name],
                  Head(reverse_dependencies[resolved[dependency_lib_name]])))
    /\ NextEdge(<< >>)
    /\ UNCHANGED << Inputs, opened_libs, resolved, reverse_dependencies,
                    status, failure, visit_order >>

\* lines 453-460
EdgeUnresolved ==
    /\ AtEdge
    /\ dependency_lib_name \notin DOMAIN resolved
    /\ dependency_lib_path = None
    /\ problems' = Append(problems, Problem("Unresolved", None, None, None))
    /\ NextEdge(<< >>)
    /\ UNCHANGED << Inputs, opened_libs, resolved, reverse_dependencies,
                    status, failure, visit_order >>

\* lines 453-463: not resolved before and found now, the path is collected
EdgeEnqueue ==
    /\ AtEdge
    /\ dependency_lib_name \notin DOMAIN resolved
    /\ dependency_lib_path # None
    /\ NextEdge(<< dependency_lib_path >>)
    /\ UNCHANGED << Inputs, opened_libs, resolved, reverse_dependencies,
                    problems, status, failure, visit_order >>

\* lines 470-472: the next recursive call
Call ==
    /\ Running
    /\ top.pc = "calls"
    /\ top.j <= Len(top.new_lib_paths)
    /\ stack' = Append(SetTop([top EXCEPT !.j = @ + 1]),
                       Frame(top.new_lib_paths[top.j], top.lib_path))
    /\ UNCHANGED << Inputs, opened_libs, resolved, reverse_dependencies,
                    problems, status, failure, visit_order, processed >>

\* line 474: Ok(())
Return ==
    /\ Running
    /\ top.pc = "calls"
    /\ top.j > Len(top.new_lib_paths)
    /\ stack' = Pop
    /\ status' = IF Len(stack) = 1 THEN "ok" ELSE status
    /\ UNCHANGED << Inputs, opened_libs, resolved, reverse_dependencies,
                    problems, failure, visit_order, processed >>

Next ==
    \/ AlreadyOpened
    \/ OpenFails
    \/ NoDynInfo
    \/ Open
    \/ EdgeUnwrapPanic
    \/ EdgeConflict
    \/ EdgeSamePath
    \/ EdgeUnresolvedButPreviouslyResolved
    \/ EdgeUnresolved
    \/ EdgeEnqueue
    \/ Call
    \/ Return

Spec == Init /\ [][Next]_vars

----------------------------------------------------------------------------
(* Vocabulary of the properties *)

HasDynInfo(L) == FromElf(disk[L]) # None

LibsOf(L) == FromElf(disk[L]).libs

\* what L's own search locations resolve lib_name to (None when nothing is found)
ResolvesTo(L, lib_name) ==
    TryFindLibrary(BuildLocations(FromElf(disk[L]), L), lib_name)

Visited == { visit_order[k].lib_path : k \in 1..Len(visit_order) }

\* position of the first insert of p into opened_libs
VisitPos(p) == CHOOSE k \in 1..Len(visit_order) :
                  /\ visit_order[k].lib_path = p
                  /\ \A m \in 1..(k - 1) : visit_order[m].lib_path # p

\* the first visited library with base-name n
FirstVisited(n) ==
    visit_order[CHOOSE k \in 1..Len(visit_order) :
                  /\ GetName(visit_order[k].lib_path) = n
                  /\ \A m \in 1..(k - 1) : GetName(visit_order[m].lib_path) # n].lib_path

HasProblem(kind, L, n) ==
    \E q \in 1..Len(problems) :
        /\ problems[q].kind = kind
        /\ problems[q].dependent_lib = L
        /\ problems[q].lib_name = n

\* the NEEDED entry under the closure fails to resolve or conflicts with resolved
EdgeIsIssue ==
    \/ dependency_lib_path = None
    \/ /\ dependency_lib_name \in DOMAIN resolved
       /\ dependency_lib_path # resolved[dependency_lib_name]

----------------------------------------------------------------------------
(* C1: after the walk, whenever an opened library's own search locations
   resolve a NEEDED name n to a path P while resolved[n] is a different path
   Q with the same base-name, problems holds a ResolveConflict for n with
   resolve_path = P and prev_resolved_path = Q. *)
C1_NoConflictFalseNegative ==
    status = "ok" =>
      \A L \in opened_libs : \A k \in 1..Len(LibsOf(L)) :
        LET n == LibsOf(L)[k]
            P == ResolvesTo(L, n)
        IN  ( /\ P # None
              /\ n \in DOMAIN resolved
              /\ resolved[n] # P
              /\ GetName(P) = n
              /\ GetName(resolved[n]) = n )
            => \E q \in 1..Len(problems) :
                  /\ problems[q].kind = "ResolveConflict"
                  /\ problems[q].lib_name = n
                  /\ problems[q].resolve_path = P
                  /\ problems[q].prev_resolved_path = resolved[n]

(* C2: at every point of the walk every visited base-name is in resolved and
   resolved[n] is the path of the first visited library with base-name n; an
   entry of resolved is never overwritten or removed. *)
C2_FirstWins ==
    /\ [](\A k \in 1..Len(visit_order) :
            /\ GetName(visit_order[k].lib_path) \in DOMAIN resolved
            /\ resolved[GetName(visit_order[k].lib_path)]
                 = FirstVisited(GetName(visit_order[k].lib_path)))
    /\ [][\A n \in DOMAIN resolved :
            n \in DOMAIN resolved' /\ resolved'[n] = resolved[n]]_vars

\* two libraries with the same base-name have been opened
C2_Witness ==
    \E a \in opened_libs, b \in opened_libs :
        /\ a # b
        /\ GetName(a) = GetName(b)
        /\ resolved[GetName(a)] = a
        /\ VisitPos(a) < VisitPos(b)

(* C3: when the NEEDED graph has a cycle (an opened library whose own search
   locations resolve one of its NEEDED names to itself or to the entry file),
   the walk does not abort on the reverse-dependency lookup of an
   already-resolved name, and no path is opened twice. *)
C3_CyclesTolerated ==
    ( \E L \in opened_libs :
        /\ HasDynInfo(L)
        /\ \E k \in 1..Len(LibsOf(L)) : ResolvesTo(L, LibsOf(L)[k]) \in {L, elf_path} )
    => /\ failure # "unwrap"
       /\ \A a \in 1..Len(visit_order), b \in 1..Len(visit_order) :
             visit_order[a].lib_path = visit_order[b].lib_path => a = b

(* C4: a NEEDED edge that fails to resolve or conflicts with an earlier
   resolution never aborts the walk: the step that processes it records one
   problem and leaves the walk running at the next NEEDED entry. *)
C4_EdgeIssuesNeverAbort ==
    [][(AtEdge /\ EdgeIsIssue) =>
          /\ status' = "running"
          /\ Len(problems') = Len(problems) + 1
          /\ stack' # << >>
          /\ stack'[Len(stack')].i = top.i + 1]_vars

(* C5: a visited library without a dynamic section never aborts the run and
   never is the dependent of a problem record. *)
C5_NoDynamicSectionTolerated ==
    \A L \in opened_libs :
        ~disk[L].has_dynamic =>
           /\ status # "panic"
           /\ \A q \in 1..Len(problems) : problems[q].dependent_lib # L

(* C6: an empty NEEDED string is discarded: it is never probed against the
   search locations, never enqueued, and never named by a problem record or
   the reason of a fatal error. *)
C6_EmptyNeededDiscarded ==
    /\ \A k \in 1..Len(processed) : processed[k].lib_name # ""
    /\ \A q \in 1..Len(problems) : problems[q].lib_name # ""
    /\ \A f \in 1..Len(stack) :
          /\ GetName(stack[f].lib_path) # ""
          /\ \A k \in 1..Len(stack[f].new_lib_paths) :
                GetName(stack[f].new_lib_paths[k]) # ""

(* C7: whenever a dependent fails to find a NEEDED name that an earlier
   processed edge found at some path, the record for that edge is an
   UnresolvedButPreviouslyResolved and not a plain Unresolved. *)
C7_PreviouslyResolvedIsReported ==
    \A k \in 1..Len(processed) :
      ( /\ processed[k].dependency_lib_path = None
        /\ \E m \in 1..(k - 1) :
              /\ processed[m].lib_name = processed[k].lib_name
              /\ processed[m].dependency_lib_path # None )
      => /\ HasProblem("UnresolvedButPreviouslyResolved",
                       processed[k].dependent_lib, processed[k].lib_name)
         /\ ~HasProblem("Unresolved",
                        processed[k].dependent_lib, processed[k].lib_name)

(* C8: after the walk, every opened library L whose own search locations
   resolve a NEEDED name n to resolved[n] is an element of
   reverse_dependencies[resolved[n]], and each list is in the order in which
   its dependents were processed. *)
C8_ReverseDependenciesComplete ==
    status = "ok" =>
      /\ \A L \in opened_libs : \A k \in 1..Len(LibsOf(L)) :
           LET n == LibsOf(L)[k]
               P == ResolvesTo(L, n)
           IN  (P # None /\ n \in DOMAIN resolved /\ resolved[n] = P)
               => /\ P \in DOMAIN reverse_dependencies
                  /\ \E x \in 1..Len(reverse_dependencies[P]) :
                        reverse_dependencies[P][x] = L
      /\ \A P \in DOMAIN reverse_dependencies :
           \A x \in 1..Len(reverse_dependencies[P]), y \in 1..Len(reverse_dependencies[P]) :
              x < y => VisitPos(reverse_dependencies[P][x])
                         <= VisitPos(reverse_dependencies[P][y])

(* C9: the step that processes one NEEDED entry appends exactly one problem
   record when the lookup fails or yields a path different from the
   already-resolved one, and none otherwise. *)
C9_OneRecordPerEdge ==
    [][AtEdge =>
         Len(problems') = Len(problems) + (IF EdgeIsIssue THEN 1 ELSE 0)]_vars

(* C10: the paths with a reverse_dependencies entry are exactly those visited
   as a dependency (the entry file has none); the first element of the list
   of p is the library under which p was first visited, and it stays the
   first element through every later step. *)
C10_FirstResolver ==
    /\ [](/\ DOMAIN reverse_dependencies =
               { visit_order[k].lib_path :
                   k \in { m \in 1..Len(visit_order) : visit_order[m].under # None } }
          /\ elf_path \notin DOMAIN reverse_dependencies
          /\ \A p \in opened_libs \ {elf_path} :
                /\ p \in DOMAIN reverse_dependencies
                /\ reverse_dependencies[p] # << >>
                /\ reverse_dependencies[p][1] = visit_order[VisitPos(p)].under)
    /\ [][\A p \in DOMAIN reverse_dependencies :
            /\ p \in DOMAIN reverse_dependencies'
            /\ Head(reverse_dependencies'[p]) = Head(reverse_dependencies[p])]_vars

\* a library pulled in by one dependent has been re-encountered by another
C10_Witness ==
    \E p \in DOMAIN reverse_dependencies :
        /\ Len(reverse_dependencies[p]) >= 2
        /\ reverse_dependencies[p][1] # reverse_dependencies[p][2]
        /\ reverse_dependencies[p][1] = visit_order[VisitPos(p)].under

----------------------------------------------------------------------------
\* C11: referential integrity of the accumulator.  In every state every value
\* of resolved is a key of opened_libs, every key of reverse_dependencies is a
\* key of opened_libs, every list of reverse_dependencies is non-empty, and
\* every element of every list is a key of opened_libs.
C11_ReferentialIntegrity ==
    /\ \A n \in DOMAIN resolved : resolved[n] \in opened_libs
    /\ \A p \in DOMAIN reverse_dependencies :
          /\ p \in opened_libs
          /\ reverse_dependencies[p] # << >>
          /\ \A k \in 1..Len(reverse_dependencies[p]) :
                reverse_dependencies[p][k] \in opened_libs

\* a finished walk with three libraries, one of them with two dependents
C11_Witness ==
    /\ status = "ok"
    /\ Cardinality(DOMAIN resolved) >= 3
    /\ \E p \in DOMAIN reverse_dependencies : Len(reverse_dependencies[p]) >= 2

----------------------------------------------------------------------------
(* Order of the walk *)

\* the libraries on the chain of first visits from p up to the entry, p excluded
RECURSIVE Ancestors(_)
Ancestors(p) ==
    LET u == visit_order[VisitPos(p)].under
    IN  IF u = None THEN {} ELSE {u} \cup Ancestors(u)

\* the names of the problem records whose dependent is L, in the order of problems
RECURSIVE ProblemNamesFrom(_, _)
ProblemNamesFrom(L, q) ==
    IF q > Len(problems) THEN << >>
    ELSE IF problems[q].dependent_lib = L
      THEN << problems[q].lib_name >> \o ProblemNamesFrom(L, q + 1)
    ELSE ProblemNamesFrom(L, q + 1)

\* a[i..] can be read off b[j..] from left to right
RECURSIVE IsSubseqFrom(_, _, _, _)
IsSubseqFrom(a, i, b, j) ==
    IF i > Len(a) THEN TRUE
    ELSE IF j > Len(b) THEN FALSE
    ELSE IF a[i] = b[j] THEN IsSubseqFrom(a, i + 1, b, j + 1)
    ELSE IsSubseqFrom(a, i, b, j + 1)

IsPrefix(a, b) == Len(a) <= Len(b) /\ SubSeq(b, 1, Len(a)) = a

\* the first NEEDED entry of L that L's locations resolve to P
FirstEdgeTo(L, P) ==
    CHOOSE k \in 1..Len(LibsOf(L)) :
        /\ ResolvesTo(L, LibsOf(L)[k]) = P
        /\ \A m \in 1..(k - 1) : ResolvesTo(L, LibsOf(L)[m]) # P

ProducedBy(L, P) == \E k \in 1..Len(LibsOf(L)) : ResolvesTo(L, LibsOf(L)[k]) = P

C12_RecordsInNeededOrder ==
    \A L \in Visited :
        HasDynInfo(L) => IsSubseqFrom(ProblemNamesFrom(L, 1), 1, LibsOf(L), 1)

C12_DependentBeforeBeneath ==
    \A q1 \in 1..Len(problems), q2 \in 1..Len(problems) :
        problems[q1].dependent_lib \in Ancestors(problems[q2].dependent_lib) => q1 < q2

C12_SiblingsInProductionOrder ==
    \A a \in 1..Len(visit_order), b \in 1..Len(visit_order) :
        (a < b /\ visit_order[a].under # None /\ visit_order[a].under = visit_order[b].under)
        => LET L == visit_order[a].under
               A == visit_order[a].lib_path
               B == visit_order[b].lib_path
           IN  /\ ProducedBy(L, A) /\ ProducedBy(L, B)
               /\ FirstEdgeTo(L, A) < FirstEdgeTo(L, B)
               \* the whole subtree of A is visited before B
               /\ \A m \in 1..Len(visit_order) :
                     A \in Ancestors(visit_order[m].lib_path) => m < b
               /\ \A m \in 1..Len(visit_order) :
                     B \in Ancestors(visit_order[m].lib_path) => m > b

\* C12: problems are recorded in depth-first edge-visit order.  The records of a
\* dependent L appear in the order of L's NEEDED entries and before every record
\* of a dependent first visited beneath L; the libraries L enqueues are visited
\* in the order L produced them, each with its whole subtree before the next
\* one; and problems only ever grows at its end.
C12_DepthFirstOrder ==
    /\ [](C12_RecordsInNeededOrder /\ C12_DependentBeforeBeneath
            /\ C12_SiblingsInProductionOrder)
    /\ [][IsPrefix(problems, problems')]_vars

\* a finished walk with a record of a dependent followed by a record of a
\* library first visited beneath it
C12_Witness ==
    /\ \E q1 \in 1..Len(problems), q2 \in 1..Len(problems) :
          problems[q1].dependent_lib \in Ancestors(problems[q2].dependent_lib)
    /\ status = "ok"

\* two libraries enqueued by the same dependent, the first with a subtree
C12_SiblingWitness ==
    \E a \in 1..Len(visit_order), b \in 1..Len(visit_order), m \in 1..Len(visit_order) :
        /\ a < b
        /\ visit_order[a].under # None
        /\ visit_order[a].under = visit_order[b].under
        /\ visit_order[a].lib_path \in Ancestors(visit_order[m].lib_path)

----------------------------------------------------------------------------
\* the file at p cannot be read, or its bytes do not parse as ELF
Unopenable(p) == p \notin DOMAIN disk \/ ~disk[p].elf

\* C14: open failures are fatal.  When the path of the running call (the entry
\* or an enqueued candidate) is not opened yet and cannot be read or parsed, the
\* step ends the whole run with an error, the path is not inserted into
\* opened_libs and no problem is recorded; from then on nothing changes: no
\* library is opened, no problem recorded, and the result is the error.
C14_OpenFailuresFatal ==
    /\ [][(Running /\ top.pc = "enter" /\ top.lib_path \notin opened_libs
             /\ Unopenable(top.lib_path))
           => /\ status' = "err"
              /\ stack' = << >>
              /\ opened_libs' = opened_libs
              /\ top.lib_path \notin opened_libs'
              /\ problems' = problems]_vars
    /\ [][status # "err"]_vars
    /\ [](status = "err" => stack = << >> /\ failure = "open")

\* an enqueued candidate failed to open after two libraries were opened and a
\* problem was recorded
C14_Witness ==
    /\ status = "err"
    /\ Cardinality(opened_libs) >= 2
    /\ problems # << >>

\* the entry itself cannot be opened
C14_EntryWitness == status = "err" /\ opened_libs = {}

----------------------------------------------------------------------------
\* the edge in hand names a library resolved before, and the locations of the
\* dependent yield another path
AtConflictEdge ==
    /\ AtEdge
    /\ dependency_lib_name \in DOMAIN resolved
    /\ dependency_lib_path # None
    /\ dependency_lib_path # resolved[dependency_lib_name]

\* C20: when the dependent L handles a NEEDED name n that is in resolved with
\* path Q and L's locations yield a path P different from Q, the step appends
\* one ResolveConflict record with dependent L, name n, resolve_path P,
\* prev_resolved_path Q and first_resolver the first element of
\* reverse_dependencies[Q] at that moment; P is neither enqueued nor opened,
\* and resolved and reverse_dependencies stay as they are.
C20_ConflictRecord ==
    [][AtConflictEdge =>
        LET Q == resolved[dependency_lib_name]
        IN  /\ Q \in DOMAIN reverse_dependencies
            /\ Len(problems') = Len(problems) + 1
            /\ SubSeq(problems', 1, Len(problems)) = problems
            /\ LET r == problems'[Len(problems')]
               IN  /\ r.kind = "ResolveConflict"
                   /\ r.dependent_lib = top.lib_path
                   /\ r.lib_name = dependency_lib_name
                   /\ r.resolve_path = dependency_lib_path
                   /\ r.prev_resolved_path = Q
                   /\ r.first_resolver = Head(reverse_dependencies[Q])
            /\ Len(stack') = Len(stack)
            /\ stack'[Len(stack')].new_lib_paths = top.new_lib_paths
            /\ opened_libs' = opened_libs
            /\ resolved' = resolved
            /\ reverse_dependencies' = reverse_dependencies]_vars

\* the same, for the conflict edges whose earlier path Q has an entry in
\* reverse_dependencies (every Q but the entry file)
C20_ConflictRecordWithResolver ==
    [][(AtConflictEdge /\ resolved[dependency_lib_name] \in DOMAIN reverse_dependencies) =>
        LET Q == resolved[dependency_lib_name]
            r == problems'[Len(problems')]
        IN  /\ problems' = Append(problems, r)
            /\ r.kind = "ResolveConflict"
            /\ r.dependent_lib = top.lib_path
            /\ r.lib_name = dependency_lib_name
            /\ r.resolve_path = dependency_lib_path
            /\ r.prev_resolved_path = Q
            /\ r.first_resolver = Head(reverse_dependencies[Q])
            /\ Len(stack') = Len(stack)
            /\ stack'[Len(stack')].new_lib_paths = top.new_lib_paths
            /\ opened_libs' = opened_libs
            /\ resolved' = resolved
            /\ reverse_dependencies' = reverse_dependencies]_vars

----------------------------------------------------------------------------
(* The search locations of one dependent and one lookup in them *)

MaxMethods == 3

MaxSegs == 1

\* a directory that does not exist
DirC == "/c/lib"

LookupMethods == {RPath, RunPath, LDLibraryPath, Fixed(DirB)}

\* an ELF file whose dynamic section holds the given DT_RPATH and DT_RUNPATH strings
DynFile(rpaths, runpaths) ==
    [elf |-> TRUE, has_dynamic |-> TRUE,
     dyns |-> [k \in 1..Len(rpaths) |-> Dyn(RPATH_D_TAG, rpaths[k])]
              \o [k \in 1..Len(runpaths) |-> Dyn(RUNPATH_D_TAG, runpaths[k])]]

\* no walk is running
WalkerIdle ==
    /\ opened_libs = {}
    /\ resolved = << >>
    /\ reverse_dependencies = << >>
    /\ problems = << >>
    /\ stack = << >>
    /\ status = "idle"
    /\ failure = "none"
    /\ visit_order = << >>
    /\ processed = << >>

Walker == << opened_libs, resolved, reverse_dependencies, problems, stack,
             status, failure, visit_order, processed >>

InitLookup ==
    /\ \E rp \in SeqsUpTo({"$ORIGIN", DirC}, MaxSegs) :
       \E ru \in SeqsUpTo({DirB, DirC}, MaxSegs) :
       \E zfiles \in SUBSET {ZPathA, ZPathB} :
       \E n \in {"libz.so", ""} :
          /\ disk = [p \in {elf_path} \cup zfiles |->
                      IF p = elf_path THEN DynFile(rp, ru) ELSE DynFile(<< >>, << >>)]
          /\ lookup = [pc |-> "build", lib_path |-> elf_path, lib_name |-> n,
                       rpath |-> rp, runpath |-> ru,
                       lib_locations |-> << >>, found |-> None]
    /\ search_methods \in SeqsUpTo(LookupMethods, MaxMethods)
    /\ ld_library_path \in {Unset, << DirB >>, << DirC, DirA >>}
    /\ summary = Idle
    /\ conf = Idle
    /\ WalkerIdle

\* lines 355-404: the dynamic info of the dependent, then its locations
LookupBuild ==
    /\ lookup.pc = "build"
    /\ lookup' = [lookup EXCEPT
                    !.pc = "find",
                    !.lib_locations =
                        BuildLocations(FromElf(disk[lookup.lib_path]), lookup.lib_path)]
    /\ UNCHANGED << disk, search_methods, ld_library_path, summary, conf, Walker >>

\* line 416: lib_locations.try_find_library(lib_name)
LookupFind ==
    /\ lookup.pc = "find"
    /\ lookup' = [lookup EXCEPT
                    !.pc = "done",
                    !.found = TryFindLibrary(lookup.lib_locations, lookup.lib_name)]
    /\ UNCHANGED << disk, search_methods, ld_library_path, summary, conf, Walker >>

NextLookup == LookupBuild \/ LookupFind

SpecLookup == InitLookup /\ [][NextLookup]_vars

\* the directories a method stands for, and the tag they carry
ExpectedDirs(method) ==
    IF method = RPath
      THEN [k \in 1..Len(lookup.rpath) |->
              IF lookup.rpath[k] = "$ORIGIN" THEN lookup.lib_path.dir ELSE lookup.rpath[k]]
    ELSE IF method = RunPath
      THEN [k \in 1..Len(lookup.runpath) |->
              IF lookup.runpath[k] = "$ORIGIN" THEN lookup.lib_path.dir ELSE lookup.runpath[k]]
    ELSE IF method = LDLibraryPath
      THEN IF ld_library_path = Unset THEN << >> ELSE ld_library_path
    ELSE << method.path >>

ExpectedTag(method) ==
    IF method = RPath THEN "rpath"
    ELSE IF method = RunPath THEN "runpath"
    ELSE IF method = LDLibraryPath THEN "LD_LIBRARY_PATH"
    ELSE "fixed"

\* the number of locations that the methods before the m-th stand for
RECURSIVE Offset(_)
Offset(m) ==
    IF m = 1 THEN 0 ELSE Offset(m - 1) + Len(ExpectedDirs(search_methods[m - 1]))

\* C13: the locations of a dependent are the concatenation, in the order of the
\* method list, of what each method stands for: its rpath segments for RPath,
\* its runpath segments for RunPath (also when both are present),
\* LD_LIBRARY_PATH and fixed directories at the positions of their methods;
\* directories that do not exist stay in the list.  The lookup of a name
\* returns dir/name for the earliest listed dir under which it exists, and
\* nothing iff no listed dir holds it.
C13_SearchOrder ==
    /\ lookup.pc \in {"find", "done"} =>
          LET locs == lookup.lib_locations IN
          /\ Len(locs) = Offset(Len(search_methods) + 1)
          /\ \A m \in 1..Len(search_methods) :
                \A k \in 1..Len(ExpectedDirs(search_methods[m])) :
                    locs[Offset(m) + k] =
                        << ExpectedDirs(search_methods[m])[k], ExpectedTag(search_methods[m]) >>
    /\ lookup.pc = "done" =>
          LET locs == lookup.lib_locations
              Holds(k) == Path(locs[k][1], lookup.lib_name) \in DOMAIN disk
                          \/ (lookup.lib_name = "" /\ locs[k][1] \in Directories)
          IN  /\ lookup.found = None <=> \A k \in 1..Len(locs) : ~Holds(k)
              /\ lookup.found # None =>
                    \E k \in 1..Len(locs) :
                        /\ lookup.found = Path(locs[k][1], lookup.lib_name)
                        /\ Holds(k)
                        /\ \A m \in 1..(k - 1) : ~Holds(m)

\* both DT_RPATH and DT_RUNPATH present and both methods listed; the name is
\* found, but not under the first location, which does not exist
C13_Witness ==
    /\ lookup.pc = "done"
    /\ lookup.rpath # << >> /\ lookup.runpath # << >>
    /\ \E a, b \in 1..Len(search_methods) :
          search_methods[a] = RPath /\ search_methods[b] = RunPath
    /\ lookup.found # None
    /\ lookup.lib_locations[1][1] = DirC
    /\ lookup.found.dir # DirC

----------------------------------------------------------------------------
(* The symbol summary (symbols.rs) and the two symbol reports of main *)

BIND_GLOBAL == 1

NDX_UNDEFINED == 0

VIS_HIDDEN == 2

MaxSyms == 3

\* a dynamic symbol: st_name is an offset into the dynamic string table,
\* st_bind the value of Sym::st_bind(), st_other the whole byte
Sym(st_name, st_bind, st_other, st_shndx) ==
    [st_name |-> st_name, st_bind |-> st_bind, st_other |-> st_other,
     st_shndx |-> st_shndx]

\* the strings of the dynamic string table, by offset (counted in strings)
DynStrTab == << "", "f" >>

\* Strtab::get: the string at the offset, nothing beyond the end of the table
StrtabGet(tab, offset) == IF offset < Len(tab) THEN << tab[offset + 1] >> ELSE << >>

\* variant: only symbols of global binding count as definitions
IsDefinedGlobal(name, sym) ==
    name # "" /\ sym.st_bind = BIND_GLOBAL /\ sym.st_shndx # NDX_UNDEFINED

\* symbols.rs 40-42
IsExported(name, sym) ==
    /\ name # ""
    /\ sym.st_bind = BIND_GLOBAL
    /\ sym.st_other # VIS_HIDDEN
    /\ sym.st_shndx # NDX_UNDEFINED

\* symbols.rs 50
IsUnresolved(name, sym) == name # "" /\ sym.st_shndx = NDX_UNDEFINED

\* symbols.rs 57
IsDefined(name, sym) == name # "" /\ sym.st_shndx # NDX_UNDEFINED

\* entry(name).or_insert(HashSet::new()).insert(lib_name)
AddTo(map, name, lib_name) ==
    MapPut(map, name, (IF name \in DOMAIN map THEN map[name] ELSE {}) \cup {lib_name})

\* symbols.rs 37-64: the body of the loop over the dynamic symbols
SummariseSym(sum, sym, lib_name, tab) ==
    LET got == StrtabGet(tab, sym.st_name) IN
    IF got = << >> THEN sum
    ELSE LET name == got[1]
             s1 == IF IsExported(name, sym)
                     THEN [sum EXCEPT !.exported = AddTo(@, name, lib_name)] ELSE sum
             s2 == IF IsUnresolved(name, sym)
                     THEN [s1 EXCEPT !.unresolved = AddTo(@, name, lib_name)] ELSE s1
         IN  IF IsDefined(name, sym)
               THEN [s2 EXCEPT !.defined = AddTo(@, name, lib_name)] ELSE s2

RECURSIVE SummariseSyms(_, _, _, _, _)
SummariseSyms(sum, dynsyms, k, lib_name, tab) ==
    IF k > Len(dynsyms) THEN sum
    ELSE SummariseSyms(SummariseSym(sum, dynsyms[k], lib_name, tab),
                       dynsyms, k + 1, lib_name, tab)

\* the library names of the model in the order of String::cmp
NameOrder == << "app", "libfoo.so", "libz.so" >>

NameRank(n) == CHOOSE k \in 1..Len(NameOrder) : NameOrder[k] = n

\* libs_to_key: the names sorted; the key is kept as the sequence that
\* join(", ") writes out
RECURSIVE LibsToKey(_)
LibsToKey(lib_names) ==
    IF lib_names = {} THEN << >>
    ELSE LET least == CHOOSE x \in lib_names :
                         \A y \in lib_names : NameRank(x) <= NameRank(y)
         IN  << least >> \o LibsToKey(lib_names \ {least})

\* filter, map to (key, symbol) and group
Group(map, keep) ==
    LET kept == { sy \in DOMAIN map : keep[sy] }
        keys == { LibsToKey(map[sy]) : sy \in kept }
    IN  [key \in keys |-> { sy \in kept : LibsToKey(map[sy]) = key }]

\* an ELF file with the given dynamic symbol table
SymFile(dynsyms) ==
    [elf |-> TRUE, has_dynamic |-> TRUE, dyns |-> << >>,
     dynsyms |-> dynsyms, dynstrtab |-> DynStrTab]

\* undefined f; f defined: global, global and hidden, local; a defined symbol
\* with the empty name; the null symbol; a name offset beyond the string table
SymKinds ==
    { Sym(1, 1, 0, 0), Sym(1, 1, 0, 1), Sym(1, 1, 2, 1), Sym(1, 0, 0, 1),
      Sym(0, 1, 0, 1), Sym(0, 0, 0, 0), Sym(2, 1, 0, 0) }

\* symbols.rs 29-33 and the position of main: the libraries still to read
SummaryNew(todo) ==
    [pc |-> "summarising", todo |-> todo,
     exported |-> << >>, unresolved |-> << >>, defined |-> << >>,
     duplicate_groups |-> << >>, unresolved_groups |-> << >>]

\* The accumulator of a finished walk: the entry needs libfoo.so and libz.so,
\* libfoo.so needs libz.so and finds it in another directory; both files
\* named libz.so were opened, the one found beneath libfoo.so is in resolved.
InitSummary ==
    /\ \E sa \in SeqsUpTo(SymKinds, MaxSyms) :
       \E sf \in SeqsUpTo(SymKinds, MaxSyms - Len(sa)) :
       \E sz \in SeqsUpTo(SymKinds, MaxSyms - Len(sa) - Len(sf)) :
       \E sy \in SeqsUpTo(SymKinds, MaxSyms - Len(sa) - Len(sf) - Len(sz)) :
          disk = [p \in {elf_path, FooPath, ZPathA, ZPathB} |->
                    IF p = elf_path THEN SymFile(sa)
                    ELSE IF p = FooPath THEN SymFile(sf)
                    ELSE IF p = ZPathB THEN SymFile(sz)
                    ELSE SymFile(sy)]
    /\ search_methods = << RPath >>
    /\ ld_library_path = Unset
    /\ opened_libs = {elf_path, FooPath, ZPathA, ZPathB}
    /\ resolved = [n \in {"app", "libfoo.so", "libz.so"} |->
                     IF n = "app" THEN elf_path
                     ELSE IF n = "libfoo.so" THEN FooPath ELSE ZPathB]
    /\ reverse_dependencies = [p \in {FooPath, ZPathA, ZPathB} |->
                                 IF p = ZPathB THEN << FooPath >> ELSE << elf_path >>]
    /\ problems = << >>
    /\ stack = << >>
    /\ status = "ok"
    /\ failure = "none"
    /\ visit_order = << >>
    /\ processed = << >>
    /\ lookup = Idle
    /\ conf = Idle
    /\ summary = SummaryNew(DOMAIN resolved)

\* the accumulator of InitSummary as the result of a walk
WalkEndsWithShadowedLibrary ==
    /\ status = "ok"
    /\ opened_libs = {elf_path, FooPath, ZPathA, ZPathB}
    /\ DOMAIN resolved = {"app", "libfoo.so", "libz.so"}
    /\ resolved["app"] = elf_path
    /\ resolved["libfoo.so"] = FooPath
    /\ resolved["libz.so"] = ZPathB
    /\ DOMAIN reverse_dependencies = {FooPath, ZPathA, ZPathB}
    /\ reverse_dependencies[FooPath] = << elf_path >>
    /\ reverse_dependencies[ZPathA] = << elf_path >>
    /\ reverse_dependencies[ZPathB] = << FooPath >>
    /\ problems = << >>

NotSummary == << disk, search_methods, ld_library_path, lookup, conf, Walker >>

\* symbols.rs 34-66: one turn of the loop over resolved, in the order of the HashMap
SummariseLib ==
    /\ summary.pc = "summarising"
    /\ \E lib_name \in summary.todo :
          LET elf == disk[resolved[lib_name]]
              sum == SummariseSyms(summary, elf.dynsyms, 1, lib_name, elf.dynstrtab)
          IN  summary' = [sum EXCEPT
                            !.todo = @ \ {lib_name},
                            !.pc = IF summary.todo = {lib_name}
                                     THEN "duplicates" ELSE "summarising"]
    /\ UNCHANGED NotSummary

\* main.rs 526-529
DuplicateGroups ==
    /\ summary.pc = "duplicates"
    /\ summary' = [summary EXCEPT
                     !.pc = "unresolved",
                     !.duplicate_groups =
                         Group(summary.exported,
                               [sy \in DOMAIN summary.exported |->
                                   /\ Cardinality(summary.exported[sy]) >= 2
                                   /\ sy \in DOMAIN summary.unresolved])]
    /\ UNCHANGED NotSummary

\* main.rs 531-534
UnresolvedGroups ==
    /\ summary.pc = "unresolved"
    /\ summary' = [summary EXCEPT
                     !.pc = "done",
                     !.unresolved_groups =
                         Group(summary.unresolved,
                               [sy \in DOMAIN summary.unresolved |->
                                   /\ Cardinality(summary.unresolved[sy]) >= 1
                                   /\ sy \notin DOMAIN summary.defined])]
    /\ UNCHANGED NotSummary

NextSummary == SummariseLib \/ DuplicateGroups \/ UnresolvedGroups

SpecSummary == InitSummary /\ [][NextSummary]_vars

(* Vocabulary of the symbol properties *)

\* the non-empty symbol names of the model
SymbolNames == { DynStrTab[k] : k \in 1..Len(DynStrTab) } \ {""}

\* the file at p has a dynamic symbol named s whose fields satisfy P
HasSym(p, s, P(_)) ==
    \E k \in 1..Len(disk[p].dynsyms) :
        LET sym == disk[p].dynsyms[k] IN
        /\ sym.st_name < Len(disk[p].dynstrtab)
        /\ disk[p].dynstrtab[sym.st_name + 1] = s
        /\ P(sym)

DefinesSym(sym) == sym.st_shndx # 0

ReferencesSym(sym) == sym.st_shndx = 0

\* global binding, visibility (the low 2 bits of st_other) not hidden, defined
ExportsSym(sym) == sym.st_bind = 1 /\ sym.st_other % 4 # 2 /\ sym.st_shndx # 0

SetOf(map, s) == IF s \in DOMAIN map THEN map[s] ELSE {}

\* C15: summary soundness.  After the summary is made, for every non-empty
\* symbol name s and every (n, p) of resolved, n is in defined[s] iff the file
\* at p has a dynamic symbol named s with a section index other than 0, and n
\* is in unresolved[s] iff it has one named s with section index 0; the empty
\* name is no key, and a library that was opened but is not a value of
\* resolved contributes nothing.
C15_SummarySoundness ==
    summary.pc \in {"duplicates", "unresolved", "done"} =>
        /\ \A s \in SymbolNames : \A n \in DOMAIN resolved :
              /\ n \in SetOf(summary.defined, s) <=> HasSym(resolved[n], s, DefinesSym)
              /\ n \in SetOf(summary.unresolved, s) <=> HasSym(resolved[n], s, ReferencesSym)
        /\ \A s \in (DOMAIN summary.defined) \cup (DOMAIN summary.unresolved) :
              /\ s \in SymbolNames
              /\ SetOf(summary.defined, s) \cup SetOf(summary.unresolved, s)
                    \subseteq DOMAIN resolved

\* the summary of libraries that define and reference f, while the library that
\* was opened but is not in resolved has symbols the one in resolved has not
C15_Witness ==
    /\ summary.pc = "done"
    /\ SetOf(summary.defined, "f") # {}
    /\ SetOf(summary.unresolved, "f") # {}
    /\ "libz.so" \notin SetOf(summary.defined, "f")
    /\ HasSym(ZPathA, "f", DefinesSym)
    /\ \E k \in 1..Len(disk[elf_path].dynsyms) : disk[elf_path].dynsyms[k].st_bind = 0

----------------------------------------------------------------------------
(* The classification of one dynamic symbol, for every value of st_other *)

InitClassify ==
    /\ \E st_name \in 0..2, st_bind \in 0..2, st_other \in 0..255, st_shndx \in 0..1 :
          summary = [pc |-> "classify",
                     sym |-> Sym(st_name, st_bind, st_other, st_shndx),
                     exported |-> << >>, unresolved |-> << >>, defined |-> << >>]
    /\ disk = [p \in {} |-> NotElfFile]
    /\ search_methods = << >>
    /\ ld_library_path = Unset
    /\ lookup = Idle
    /\ conf = Idle
    /\ WalkerIdle

\* symbols.rs 37-64 applied to the symbol, for the library "app"
Classify ==
    /\ summary.pc = "classify"
    /\ summary' = [SummariseSym(summary, summary.sym, "app", DynStrTab)
                     EXCEPT !.pc = "classified"]
    /\ UNCHANGED NotSummary

NextClassify == Classify

SpecClassify == InitClassify /\ [][NextClassify]_vars

\* C16: a dynamic symbol with a non-empty name is classified as exported iff
\* its binding is GLOBAL (1), its visibility, the low 2 bits of st_other, is
\* not HIDDEN (2), and its section index is not UNDEFINED (0); for every
\* st_other in 0..255.
C16_ExportedClassification ==
    (summary.pc = "classified" /\ summary.sym.st_name = 1) =>
        ("app" \in SetOf(summary.exported, "f")
            <=> /\ summary.sym.st_bind = 1
                /\ summary.sym.st_other % 4 # 2
                /\ summary.sym.st_shndx # 0)

\* the same with the visibility taken as the whole byte st_other, which is the
\* comparison the source makes
C16_ExportedByWholeByte ==
    (summary.pc = "classified" /\ summary.sym.st_name = 1) =>
        ("app" \in SetOf(summary.exported, "f")
            <=> /\ summary.sym.st_bind = 1
                /\ summary.sym.st_other # 2
                /\ summary.sym.st_shndx # 0)

----------------------------------------------------------------------------
(* The two symbol reports *)

\* the names of the loaded libraries (the values of resolved) that export s
Exporters(s) == { n \in DOMAIN resolved : HasSym(resolved[n], s, ExportsSym) }

\* s is listed in the report under the key made of the sorted names
ListedUnder(groups, s, names) ==
    \E key \in DOMAIN groups : s \in groups[key] /\ key = LibsToKey(names)

Listed(groups, s) == \E key \in DOMAIN groups : s \in groups[key]

\* C17: duplicate-export report.  A symbol s is listed under "Exported
\* duplicate symbols", under the key of the sorted names of its exporters, iff
\* at least two loaded libraries export s and at least one other library, one
\* that is not among the exporters, has s as an undefined dynamic symbol.
C17_DuplicateReport ==
    summary.pc \in {"unresolved", "done"} =>
        \A s \in SymbolNames :
            /\ Listed(summary.duplicate_groups, s)
                 <=> /\ Cardinality(Exporters(s)) >= 2
                     /\ \E n \in DOMAIN resolved \ Exporters(s) :
                           HasSym(resolved[n], s, ReferencesSym)
            /\ Listed(summary.duplicate_groups, s)
                 => ListedUnder(summary.duplicate_groups, s, Exporters(s))

\* the same with the importer being any loaded library, which is the test
\* the source makes
C17_DuplicateReportAnyImporter ==
    summary.pc \in {"unresolved", "done"} =>
        \A s \in SymbolNames :
            /\ Listed(summary.duplicate_groups, s)
                 <=> /\ Cardinality(Exporters(s)) >= 2
                     /\ \E n \in DOMAIN resolved : HasSym(resolved[n], s, ReferencesSym)
            /\ Listed(summary.duplicate_groups, s)
                 => ListedUnder(summary.duplicate_groups, s, Exporters(s))

\* C18: unresolved-symbol report.  A symbol s is listed under "Unresolved
\* symbols" iff some library of the transitive closure (a library the walk
\* opened) has s as an undefined dynamic symbol and no loaded library has a
\* dynamic symbol named s with a section index other than 0.
C18_UnresolvedReport ==
    summary.pc = "done" =>
        \A s \in SymbolNames :
            Listed(summary.unresolved_groups, s)
              <=> /\ \E p \in opened_libs : HasSym(p, s, ReferencesSym)
                  /\ \A n \in DOMAIN resolved : ~HasSym(resolved[n], s, DefinesSym)

\* the same with the referencing library taken among the values of resolved
C18_UnresolvedReportOfResolved ==
    summary.pc = "done" =>
        \A s \in SymbolNames :
            Listed(summary.unresolved_groups, s)
              <=> /\ \E n \in DOMAIN resolved : HasSym(resolved[n], s, ReferencesSym)
                  /\ \A n \in DOMAIN resolved : ~HasSym(resolved[n], s, DefinesSym)

----------------------------------------------------------------------------
(* The locations of a dependent when the method list holds LDConfig, with    *)
(* search_ld_so_conf read line by line.  A line is a sequence of pieces: a   *)
(* blank " ", the sign "#", the prefix "include ", or a word.  The walker of *)
(* libraries.rs and the walker of main.rs are the two variants of the step   *)
(* that handles LDConfig.                                                    *)

MaxLines == 3

MaxDepth == 4

INCLUDE_PREFIX == "include "

ConfPath == Path("/etc", "ld.so.conf")

IncA == Path("/etc/ld.so.conf.d", "a.conf")

IncB == Path("/etc/ld.so.conf.d", "b.conf")

PatA == "/etc/ld.so.conf.d/a.conf"

PatB == "/etc/ld.so.conf.d/b.conf"

PatAll == "/etc/ld.so.conf.d/*.conf"

\* the lines drawn for the file named by LDConfig
MainLines ==
    { << >>, << " " >>, << " ", "#", DirB >>, << DirB >>, << " ", DirA, " " >>,
      << DirC >>, << INCLUDE_PREFIX, PatA >>, << INCLUDE_PREFIX, PatAll >>,
      << "include" >> }

\* the lines drawn for the included files
IncLines == { << DirB >>, << DirC >>, << INCLUDE_PREFIX, PatB >> }

\* a text file
TextFile(lines) == [elf |-> FALSE, has_dynamic |-> FALSE, dyns |-> << >>, lines |-> lines]

\* str::trim
RECURSIVE TrimStart(_)
TrimStart(line) ==
    IF line # << >> /\ Head(line) = " " THEN TrimStart(Tail(line)) ELSE line

RECURSIVE TrimEnd(_)
TrimEnd(line) ==
    IF line # << >> /\ line[Len(line)] = " "
      THEN TrimEnd(SubSeq(line, 1, Len(line) - 1)) ELSE line

Trim(line) == TrimEnd(TrimStart(line))

\* str::starts_with
StartsWith(line, piece) == line # << >> /\ Head(line) = piece

\* glob(included_path): the existing files that match, in alphabetical order
Glob(included_path) ==
    LET a == IF IncA \in DOMAIN disk THEN << IncA >> ELSE << >>
        b == IF IncB \in DOMAIN disk THEN << IncB >> ELSE << >>
    IN  IF included_path = PatA THEN a
        ELSE IF included_path = PatB THEN b
        ELSE IF included_path = PatAll THEN a \o b
        ELSE << >>

\* one call of search_ld_so_conf: the file, the next line, the glob results not yet read
ConfFrame(path) == [path |-> path, k |-> 1, globbed |-> << >>]

InitConf ==
    /\ \E lm \in SeqsUpTo(MainLines, MaxLines) :
       \E la \in SeqsUpTo(IncLines, MaxLines - Len(lm)) :
       \E lb \in SeqsUpTo(IncLines, MaxLines - Len(lm) - Len(la)) :
       \E present \in SUBSET {ConfPath, IncA, IncB, ZPathB} :
          /\ ConfPath \notin present => lm = << >>
          /\ IncA \notin present => la = << >>
          /\ IncB \notin present => lb = << >>
          /\ disk = [p \in {elf_path} \cup present |->
                      IF p = ConfPath THEN TextFile(lm)
                      ELSE IF p = IncA THEN TextFile(la)
                      ELSE IF p = IncB THEN TextFile(lb)
                      ELSE DynFile(<< >>, << >>)]
    /\ search_methods = << Fixed(DirA), LDConfig(ConfPath), Fixed(DirC) >>
    /\ ld_library_path = Unset
    /\ \E variant \in {"libraries.rs", "main.rs"} :
          conf = [pc |-> "methods", variant |-> variant, m |-> 1,
                  lib_path |-> elf_path, lib_name |-> "libz.so",
                  lib_locations |-> << >>, frames |-> << >>, found |-> None]
    /\ lookup = Idle
    /\ summary = Idle
    /\ WalkerIdle

NotConf == << disk, search_methods, ld_library_path, lookup, summary, Walker >>

AtMethod == conf.pc = "methods" /\ conf.m <= Len(search_methods)

method == search_methods[conf.m]

\* libraries.rs 369-404, main.rs 362-382: a method other than LDConfig
ConfMethod ==
    /\ AtMethod
    /\ method.kind # "LDConfig"
    /\ conf' = [conf EXCEPT
                  !.m = @ + 1,
                  !.lib_locations =
                      @ \o MethodLocations(method, FromElf(disk[conf.lib_path]),
                                           conf.lib_path.dir)]
    /\ UNCHANGED NotConf

\* main.rs 376-378: LDConfig(_cache_file) => { //TODO }
ConfMainTodo ==
    /\ AtMethod
    /\ method.kind = "LDConfig"
    /\ conf.variant = "main.rs"
    /\ conf' = [conf EXCEPT !.m = @ + 1]
    /\ UNCHANGED NotConf

\* libraries.rs 396-398 and 284-286: search_ld_so_conf(conf_file, ..) opens the file
ConfOpen ==
    /\ AtMethod
    /\ method.kind = "LDConfig"
    /\ conf.variant = "libraries.rs"
    /\ method.path \in DOMAIN disk
    /\ conf' = [conf EXCEPT !.pc = "read", !.frames = << ConfFrame(method.path) >>]
    /\ UNCHANGED NotConf

\* libraries.rs 284-285: Could not open ld.so.conf file, `?` ends collect_libs
ConfOpenFails ==
    /\ AtMethod
    /\ method.kind = "LDConfig"
    /\ conf.variant = "libraries.rs"
    /\ method.path \notin DOMAIN disk
    /\ conf' = [conf EXCEPT !.pc = "err"]
    /\ UNCHANGED NotConf

frame == conf.frames[Len(conf.frames)]

SetFrame(f) == [conf.frames EXCEPT ![Len(conf.frames)] = f]

\* libraries.rs 289-303: one line of the file of the running call
ConfLine ==
    /\ conf.pc = "read"
    /\ frame.globbed = << >>
    /\ frame.k <= Len(disk[frame.path].lines)
    /\ LET line == Trim(disk[frame.path].lines[frame.k]) IN
         IF line = << >> \/ StartsWith(line, "#")
           THEN conf' = [conf EXCEPT !.frames = SetFrame([frame EXCEPT !.k = @ + 1])]
         ELSE IF StartsWith(line, INCLUDE_PREFIX)
           THEN conf' = [conf EXCEPT
                           !.frames = SetFrame([frame EXCEPT
                                          !.k = @ + 1,
                                          !.globbed = Glob(line[2])])]
         ELSE conf' = [conf EXCEPT
                         !.frames = SetFrame([frame EXCEPT !.k = @ + 1]),
                         !.lib_locations = Append(@, << line[1], "ldconfig" >>)]
    /\ UNCHANGED NotConf

\* libraries.rs 296-299: the recursive call for the next glob result
ConfInclude ==
    /\ conf.pc = "read"
    /\ frame.globbed # << >>
    /\ Len(conf.frames) < MaxDepth
    /\ conf' = [conf EXCEPT
                  !.frames = Append(SetFrame([frame EXCEPT !.globbed = Tail(@)]),
                                    ConfFrame(Head(frame.globbed)))]
    /\ UNCHANGED NotConf

\* libraries.rs 284-299: every call keeps its file open and its frame on the
\* stack while it recurses; at some depth the process has no file descriptor
\* left (File::open fails, the error unwinds every call) or no stack left (the
\* process is killed, no call returns)
ConfExhausted ==
    /\ conf.pc = "read"
    /\ frame.globbed # << >>
    /\ Len(conf.frames) = MaxDepth
    /\ \E outcome \in {"err", "exhausted"} :
          conf' = [conf EXCEPT !.pc = outcome, !.frames = << >>]
    /\ UNCHANGED NotConf

\* libraries.rs 304: Ok(()), back in the caller
ConfReturn ==
    /\ conf.pc = "read"
    /\ frame.globbed = << >>
    /\ frame.k > Len(disk[frame.path].lines)
    /\ conf' = [conf EXCEPT
                  !.frames = SubSeq(@, 1, Len(@) - 1),
                  !.pc = IF Len(conf.frames) = 1 THEN "methods" ELSE "read",
                  !.m = IF Len(conf.frames) = 1 THEN @ + 1 ELSE @]
    /\ UNCHANGED NotConf

\* libraries.rs 416, main.rs 391: the lookup of a NEEDED name in the locations
ConfFind ==
    /\ conf.pc = "methods"
    /\ conf.m > Len(search_methods)
    /\ conf' = [conf EXCEPT
                  !.pc = "done",
                  !.found = TryFindLibrary(conf.lib_locations, conf.lib_name)]
    /\ UNCHANGED NotConf

NextConf ==
    \/ ConfMethod
    \/ ConfMainTodo
    \/ ConfOpen
    \/ ConfOpenFails
    \/ ConfLine
    \/ ConfInclude
    \/ ConfExhausted
    \/ ConfReturn
    \/ ConfFind

SpecConf == InitConf /\ [][NextConf]_vars

(* Vocabulary of the properties of the configuration reader *)

Range(f) == { f[k] : k \in DOMAIN f }

\* the files that the include lines of file name
Includes(file) ==
    UNION { Range(Glob(line[2])) :
              line \in { l \in Range(disk[file].lines) : Len(l) = 2 /\ l[1] = "include " } }

\* the files reached from file by one include or more (three files at most)
ReachedFrom(file) ==
    LET r1 == Includes(file)
        r2 == r1 \cup UNION { Includes(g) : g \in r1 }
    IN  r2 \cup UNION { Includes(g) : g \in r2 }

\* the reading of conf comes back to a file it is reading
IncludeCycle ==
    \E f \in {ConfPath} \cup ReachedFrom(ConfPath) : f \in ReachedFrom(f)

\* what the lines of the model mean: nothing, a directory, or an include
MeansNothing(line) == line \in { << >>, << " " >>, << " ", "#", DirB >> }

MeansInclude(line) == Len(line) = 2 /\ line[1] = "include "

DirectoryOf(line) == IF line = << " ", DirA, " " >> THEN DirA ELSE line[1]

\* the directories a file names, in the order of the file, those of included
\* files at the place of the include line; depth is the nesting followed
RECURSIVE DirsOfFile(_, _)
RECURSIVE DirsOfLines(_, _, _)
RECURSIVE DirsOfFiles(_, _, _)
DirsOfFile(file, depth) ==
    IF depth = 0 THEN << >> ELSE DirsOfLines(disk[file].lines, 1, depth)

DirsOfLines(lines, k, depth) ==
    IF k > Len(lines) THEN << >>
    ELSE (IF MeansNothing(lines[k]) THEN << >>
          ELSE IF MeansInclude(lines[k])
            THEN DirsOfFiles(Glob(lines[k][2]), 1, depth - 1)
          ELSE << DirectoryOf(lines[k]) >>)
         \o DirsOfLines(lines, k + 1, depth)

DirsOfFiles(files, k, depth) ==
    IF k > Len(files) THEN << >>
    ELSE DirsOfFile(files[k], depth) \o DirsOfFiles(files, k + 1, depth)

\* conf can be read to its end
ConfReadable == ConfPath \in DOMAIN disk /\ ~IncludeCycle

\* the locations hold, at the place of LDConfig in the method list, the
\* directories of conf tagged ldconfig, and a library found in none of the
\* other locations but in one of these directories is resolved to the first
LdConfigLocations ==
    LET dirs == DirsOfFile(ConfPath, MaxDepth)
        pos == CHOOSE m \in 1..Len(search_methods) : search_methods[m].kind = "LDConfig"
        before == [k \in 1..(pos - 1) |-> << search_methods[k].path, "fixed" >>]
        after == [k \in 1..(Len(search_methods) - pos) |->
                    << search_methods[pos + k].path, "fixed" >>]
        holds(d) == Path(d, conf.lib_name) \in DOMAIN disk
    IN  /\ conf.lib_locations
             = before \o [k \in 1..Len(dirs) |-> << dirs[k], "ldconfig" >>] \o after
        /\ \A k \in 1..Len(dirs) :
              (/\ holds(dirs[k])
               /\ (\A j \in 1..(k - 1) : ~holds(dirs[j]))
               /\ (\A i \in 1..Len(before) : ~holds(before[i][1])))
              => conf.found = Path(dirs[k], conf.lib_name)

\* C19: with the method LDConfig(conf) and a conf that can be read, the
\* directories named by conf are locations tagged ldconfig at the position of
\* the method: blank lines and lines starting with # give nothing, every other
\* line that is no include gives one directory, in file order, the directories
\* of the files matched by an include line stand at the place of that line; a
\* library present only in such a directory is resolved.
C19_LdConfigDirectories ==
    /\ (conf.pc = "done" /\ ConfReadable) => LdConfigLocations
    /\ (conf.pc # "idle" /\ ConfReadable) => conf.pc \notin {"err", "exhausted"}

\* the same for the walker of libraries.rs alone
C19_LdConfigDirectoriesInLibrariesRs ==
    conf.pc # "idle" /\ conf.variant = "libraries.rs" /\ ConfReadable
    => /\ conf.pc = "done" => LdConfigLocations
       /\ conf.pc \notin {"err", "exhausted"}

\* in libraries.rs: a library found only in a directory of a nested include
LdConfigNestedIncludeResolved ==
    /\ conf.pc = "done"
    /\ conf.variant = "libraries.rs"
    /\ conf.found = ZPathB
    /\ disk[ConfPath].lines # << >>
    /\ \A k \in 1..Len(disk[ConfPath].lines) : MeansInclude(disk[ConfPath].lines[k])
    /\ IncA \in DOMAIN disk
    /\ IncB \in Includes(IncA)

----------------------------------------------------------------------------
(* Termination of the reading *)

\* every step that can be taken is taken
FairSpecConf == SpecConf /\ WF_vars(NextConf)

\* search_ld_so_conf has returned to collect_libs, with Ok or with an error
ConfReturned == conf.pc \in {"methods", "done", "err"}

\* the configuration files on disk
ConfFiles == DOMAIN disk \cap {ConfPath, IncA, IncB}

\* a file is being read by a call nested in its own reading; the nested call
\* reads the same lines and nests the same call again
ConfReadsFileWithinItself ==
    /\ conf.pc = "read"
    /\ \E i, j \in 1..Len(conf.frames) : i < j /\ conf.frames[i].path = conf.frames[j].path

\* C21: reading a loader configuration terminates for every finite set of
\* configuration files: the expansion of the include lines ends, also when an
\* include matches the file being read or two files include each other.  The
\* call of search_ld_so_conf returns, and the expansion never enters a file
\* from within the reading of that file, which would repeat without end.
C21_ReadingTerminates ==
    /\ [](conf.pc = "read" => <>ConfReturned)
    /\ [](~ConfReadsFileWithinItself)

\* the returning alone
ConfReadingReturns == [](conf.pc = "read" => <>ConfReturned)

\* no file is read by a call nested in its own reading: the nesting of the
\* calls stays within the number of files
ConfNestingBounded == Len(conf.frames) <= Cardinality(ConfFiles)

\* termination and bounded nesting for the configurations in which no file is
\* reached from itself
C21_AcyclicReadingTerminates ==
    /\ [](conf.pc = "read" /\ ~IncludeCycle => <>ConfReturned)
    /\ [](ConfReadable => ConfNestingBounded)

====
